---------------------------- MODULE Spec2Model ----------------------------
(***************************************************************************)
(* A model of the routing Lambda of byo-map-track-and-trace:               *)
(*   src/routing/routing/lambda_handler.py  (handle and its helpers)       *)
(*   src/routing/routing/__init__.py        (split_graph)                  *)
(*   src/routing/routing/prepare.py         (make_edges' edge pairing)     *)
(*                                                                         *)
(* Geometry is discretised.  A point is a pair <<x, y>> of integers        *)
(* (metres in the UTM frame; the WGS84 <-> UTM transforms are a change of  *)
(* coordinates and are not modelled).  A LineString is a sequence of two   *)
(* or more points; the static lines are dense: consecutive points are one  *)
(* metre apart on an axis.  A geometry is a sequence of LineStrings: no    *)
(* part is the empty geometry, one part a LineString, several parts a      *)
(* MultiLineString.  An exclusion shape is a closed region; a segment of a *)
(* line lies inside it when both of its end points do, and a point lies    *)
(* inside it when the region holds the point (boundary included).          *)
(* Lengths are in hundredths of a metre, which is what round(..., 2) keeps.*)
(***************************************************************************)
EXTENDS Integers, Sequences, FiniteSets, TLC

(***************************************************************************)
(* Bound of the model: the longest Avoid.Areas list a request carries.     *)
(***************************************************************************)
MaxAreas == 2

----------------------------------------------------------------------------
(* Small helpers on sets and sequences.                                    *)

MaxOf(S) == CHOOSE m \in S : \A x \in S : x <= m

Range(s) == {s[i] : i \in DOMAIN s}

RECURSIVE SumSeq(_)
SumSeq(s) == IF s = << >> THEN 0 ELSE Head(s) + SumSeq(Tail(s))

RECURSIVE Concat(_)
Concat(ss) == IF ss = << >> THEN << >> ELSE Head(ss) \o Concat(Tail(ss))

Reverse(s) == [i \in 1..Len(s) |-> s[Len(s) + 1 - i]]

----------------------------------------------------------------------------
(* Geometry.                                                               *)

Abs(n) == IF n < 0 THEN -n ELSE n

Dist2(p, q) == (p[1] - q[1]) * (p[1] - q[1]) + (p[2] - q[2]) * (p[2] - q[2])

(* round(100 * sqrt(d2)): the length of one straight segment, in           *)
(* hundredths of a metre.                                                  *)
SegmentLength(p, q) ==
    IF p[1] = q[1] THEN 100 * Abs(p[2] - q[2])
    ELSE IF p[2] = q[2] THEN 100 * Abs(p[1] - q[1])
    ELSE CHOOSE r \in 0..1000 :
            /\ (2 * r - 1) * (2 * r - 1) <= 40000 * Dist2(p, q)
            /\ 40000 * Dist2(p, q) < (2 * r + 1) * (2 * r + 1)

LineLength(line) ==
    SumSeq([i \in 1..(Len(line) - 1) |-> SegmentLength(line[i], line[i + 1])])

(* gdf.to_crs(utm).length rounded to two decimals: the sum over the parts; *)
(* the empty geometry has length 0.                                        *)
GeomLength(geom) == SumSeq([k \in 1..Len(geom) |-> LineLength(geom[k])])

IsEmptyGeom(geom) == geom = << >>
IsLineString(geom) == Len(geom) = 1

(* All coordinates of a geometry, part after part.                         *)
GeomPoints(geom) == Concat(geom)

(* An exclusion shape: a circle buffered around its centre, or a polygon   *)
(* given by the grid points of its closed region.                          *)
CircleShape(center, radius) ==
    [type |-> "circle", center |-> center, radius |-> radius, region |-> {}]
PolygonShape(region) ==
    [type |-> "polygon", center |-> <<0, 0>>, radius |-> 0, region |-> region]

ShapeCovers(shape, p) ==
    IF shape.type = "circle"
    THEN shape.radius > 0 /\ Dist2(p, shape.center) <= shape.radius * shape.radius
    ELSE p \in shape.region

ShapeIsEmpty(shape) ==
    IF shape.type = "circle" THEN shape.radius <= 0 ELSE shape.region = {}

(* GeometryCollection(exclusion_areas): a point is in it when some member  *)
(* holds it; bool(collection) is "not is_empty".                           *)
Covers(shapes, p) == \E k \in DOMAIN shapes : ShapeCovers(shapes[k], p)
CollectionIsEmpty(shapes) == \A k \in DOMAIN shapes : ShapeIsEmpty(shapes[k])

(* line - shapes: the maximal runs of segments that are not inside.        *)
RECURSIVE ClipLine(_, _, _, _)
ClipLine(line, shapes, i, cur) ==
    LET flush == IF cur = << >> THEN << >> ELSE <<cur>>
    IN IF i > Len(line) - 1 THEN flush
       ELSE IF Covers(shapes, line[i]) /\ Covers(shapes, line[i + 1])
            THEN flush \o ClipLine(line, shapes, i + 1, << >>)
            ELSE ClipLine(line, shapes, i + 1,
                          IF cur = << >> THEN <<line[i], line[i + 1]>>
                          ELSE Append(cur, line[i + 1]))

(* GeoSeries.difference for a line geometry and for a node's point.        *)
LineDifference(geom, shapes) ==
    Concat([k \in 1..Len(geom) |-> ClipLine(geom[k], shapes, 1, << >>)])

----------------------------------------------------------------------------
(* The prepared graph (the file named by GRAPH) as make_edges builds it.   *)

EdgeRow(u, v, key, geom, length) ==
    [u |-> u, v |-> v, key |-> key, geometry |-> geom, length |-> length]

(* Node ids and their points: a ring 1-2-3-4 with a spur 2-5, and node 6,  *)
(* the one node of a stub line whose two vertices were clustered together. *)
PreparedNodes ==
    (1 :> <<0, 0>>) @@ (2 :> <<3, 0>>) @@ (3 :> <<3, 2>>) @@
    (4 :> <<0, 2>>) @@ (5 :> <<5, 0>>) @@ (6 :> <<5, 2>>)

(* The segments of the input lines, from their first node to their last.   *)
PreparedSegments ==
    << [u |-> 1, v |-> 2, line |-> << <<0, 0>>, <<1, 0>>, <<2, 0>>, <<3, 0>> >>],
       [u |-> 2, v |-> 3, line |-> << <<3, 0>>, <<3, 1>>, <<3, 2>> >>],
       [u |-> 4, v |-> 3, line |-> << <<0, 2>>, <<1, 2>>, <<2, 2>>, <<3, 2>> >>],
       [u |-> 1, v |-> 4, line |-> << <<0, 0>>, <<0, 1>>, <<0, 2>> >>],
       [u |-> 2, v |-> 5, line |-> << <<3, 0>>, <<4, 0>>, <<5, 0>> >>],
       [u |-> 6, v |-> 6, line |-> << <<5, 2>>, <<5, 2>> >>] >>

(* make_edges: key 0 rows without self-edges, with their lengths.          *)
ForwardEdges(segments) ==
    LET kept == SelectSeq(segments, LAMBDA s : s.u /= s.v)
    IN [i \in 1..Len(kept) |->
          EdgeRow(kept[i].u, kept[i].v, 0, <<kept[i].line>>,
                  GeomLength(<<kept[i].line>>))]

(* "reversed_edges = edges.rename(columns={"u": "v", "v": "u"})" with      *)
(* key = 1: the node ids are swapped, every other column (the geometry and *)
(* the length) is the key 0 row's.  The same three statements are in       *)
(* make_edges, in handle and in split_graph.                               *)
ReverseEdges(rows) ==
    [i \in 1..Len(rows) |->
        EdgeRow(rows[i].v, rows[i].u, 1, rows[i].geometry, rows[i].length)]

MakeEdges(segments) == ForwardEdges(segments) \o ReverseEdges(ForwardEdges(segments))

(* ox.convert.graph_from_gdfs: a MultiDiGraph with one edge per row under  *)
(* the row's key; a node mentioned only by an edge has no coordinates.     *)
NoPoint == << >>

GraphFromGdfs(nodeTable, rows, owner) ==
    LET ids == DOMAIN nodeTable \cup {rows[i].u : i \in DOMAIN rows}
                                \cup {rows[i].v : i \in DOMAIN rows}
    IN [owner |-> owner,
        node  |-> [n \in ids |-> IF n \in DOMAIN nodeTable THEN nodeTable[n]
                                 ELSE NoPoint],
        edge  |-> Range(rows)]

(* The order in which a MultiDiGraph lists its nodes once the rows were    *)
(* added one by one: by first mention, u before v.                         *)
RECURSIVE FirstMentions(_, _)
FirstMentions(rows, seen) ==
    IF rows = << >> THEN seen
    ELSE LET r  == Head(rows)
             s1 == IF \E i \in DOMAIN seen : seen[i] = r.u THEN seen
                   ELSE Append(seen, r.u)
             s2 == IF \E i \in DOMAIN s1 : s1[i] = r.v THEN s1
                   ELSE Append(s1, r.v)
         IN FirstMentions(Tail(rows), s2)

(* ox.convert.graph_to_gdfs lists G.edges: node by node, each node's       *)
(* out-edges in the order they were added.                                 *)
GraphToGdfsEdges(rows) ==
    LET order == FirstMentions(rows, << >>)
    IN Concat([n \in 1..Len(order) |-> SelectSeq(rows, LAMBDA r : r.u = order[n])])

StaticEdges == GraphToGdfsEdges(MakeEdges(PreparedSegments))
StaticNodes == PreparedNodes
StaticGraph == GraphFromGdfs(StaticNodes, StaticEdges, "static")

(* original_graph.copy(): a graph of its own with the same nodes and edges.*)
(* The aliasing slip binds the working graph to the static one.            *)
GraphAlias(g) == g
GraphCopy(g) == [g EXCEPT !.owner = "request"]

----------------------------------------------------------------------------
(* Request bodies.  A JSON value that .get() may miss carries "present";   *)
(* its truth value is Python's: None, {}, [] and "" are false.             *)

NoCircle == [present |-> FALSE, keys |-> {}, Center |-> <<0, 0>>, Radius |-> 0]
CircleValue(center, radius) ==
    [present |-> TRUE, keys |-> {"Center", "Radius"}, Center |-> center,
     Radius |-> radius]
CircleWithoutCenter(radius) ==
    [present |-> TRUE, keys |-> {"Radius"}, Center |-> <<0, 0>>, Radius |-> radius]

(* A polygon is its list of rings, each ring given by its closed region.   *)
NoPolygon == [present |-> FALSE, rings |-> << >>]
PolygonValue(region) == [present |-> TRUE, rings |-> <<region>>]
EmptyPolygon == [present |-> TRUE, rings |-> << >>]

(* A string that is read as an ARN is the list of its ":"-separated        *)
(* elements (at most six: split(":", 5)); the resource element            *)
(* "<type>/<name>#<id>" is kept in its three parts.                        *)
EmptyString == <<"">>
ArnString(service, region, name, id) ==
    <<"arn", "aws", service, region, "111122223333",
      [type |-> "geofence-collection", name |-> name, id |-> id]>>
NoArn == [present |-> FALSE, str |-> EmptyString]
ArnValue(str) == [present |-> TRUE, str |-> str]

CircleTruthy(c) == c.present /\ c.keys /= {}
PolygonTruthy(p) == p.present /\ p.rings /= << >>
ArnTruthy(a) == a.present /\ a.str /= EmptyString

AreaObject(circle, polygon, arn) ==
    [Circle |-> circle, Polygon |-> polygon, Arn |-> arn]

(* LambdaException(status, message); the message is kept as its fixed text *)
(* and the values formatted into it.                                       *)
LambdaException(status, text, args) ==
    [raised |-> "LambdaException", status |-> status, text |-> text, args |-> args]
Uncaught(name) == [raised |-> name, status |-> 0, text |-> "", args |-> << >>]
NoException == [raised |-> "", status |-> 0, text |-> "", args |-> << >>]

(* parse_arn: elements[0..5] of arn.split(":", 5); a string with fewer     *)
(* than six elements raises IndexError.                                    *)
ArnParses(str) == Len(str) >= 6
parse_arn(str) ==
    [arn |-> str[1], partition |-> str[2], service |-> str[3],
     region |-> str[4], account |-> str[5], resource |-> str[6].name,
     resource_id |-> str[6].id, resource_type |-> str[6].type]

(* arn.split("#")[0] and f"{arn}#{GeofenceId}".                            *)
ArnWithoutId(str) == [str EXCEPT ![6].id = ""]
GeofenceKey(arnWithoutId, geofenceId) == [arnWithoutId EXCEPT ![6].id = geofenceId]

(* The geofence catalog of the account: what list_geofences pages hold     *)
(* for a collection when the call succeeds.                                *)
CatalogEntries(region, collection) ==
    IF region = "us-west-2" /\ collection = "sites"
    THEN {[GeofenceId |-> "yard",
           Geometry |-> [Circle |-> CircleValue(<<0, 2>>, 1), Polygon |-> NoPolygon]]}
    ELSE {}

(* How one list_geofences pagination may end: its pages, a                 *)
(* botocore ClientError, or any other exception of the client (a connect   *)
(* or read timeout, no credentials, ...).                                  *)
FetchOutcomes == {"ok", "ClientError", "ReadTimeoutError"}

(* prefetch_geofences, lines 84-103: the (region, collection) pairs to     *)
(* fetch, in the order the nested dicts list them, each with the ARN prefix*)
(* stored last for it.                                                     *)
PrefetchArns(areas) ==
    LET withArn == SelectSeq(areas, LAMBDA a : a.Arn.present)
    IN [i \in 1..Len(withArn) |-> withArn[i].Arn.str]

RECURSIVE DistinctInOrder(_, _)
DistinctInOrder(s, seen) ==
    IF s = << >> THEN seen
    ELSE DistinctInOrder(Tail(s),
            IF \E i \in DOMAIN seen : seen[i] = Head(s) THEN seen
            ELSE Append(seen, Head(s)))

PrefetchGroups(arns) ==
    LET comps   == [i \in 1..Len(arns) |-> parse_arn(arns[i])]
        regions == DistinctInOrder([i \in 1..Len(arns) |-> comps[i].region], << >>)
        pairs   == DistinctInOrder(
                      [i \in 1..Len(arns) |-> <<comps[i].region, comps[i].resource>>],
                      << >>)
        last(pair) == MaxOf({i \in 1..Len(arns) :
                               <<comps[i].region, comps[i].resource>> = pair})
        group(pair) == [region |-> pair[1], resource |-> pair[2],
                        arn |-> ArnWithoutId(arns[last(pair)])]
    IN Concat([r \in 1..Len(regions) |->
                 LET mine == SelectSeq(pairs, LAMBDA pr : pr[1] = regions[r])
                 IN [k \in 1..Len(mine) |-> group(mine[k])]])

(* The geofences one successful pagination adds.                           *)
FetchedGeofences(group) ==
    {[key |-> GeofenceKey(group.arn, e.GeofenceId), Geometry |-> e.Geometry] :
        e \in CatalogEntries(group.region, group.resource)}

(* prefetch_geofences(areas) when the k-th catalog call ends as            *)
(* outcomes[k]: the exception it ends with (if any), the geofences         *)
(* gathered and the catalog calls made.                                    *)
PrefetchError(group) ==
    LambdaException(500, "Unable to pre-fetch geofences", <<group.region, group.resource>>)

prefetch_geofences(areas, outcomes) ==
    LET arns == PrefetchArns(areas)
    IN IF \E i \in DOMAIN arns : ~ArnParses(arns[i])
       THEN [exception |-> Uncaught("IndexError"), geofences |-> {}, calls |-> << >>]
       ELSE LET groups == PrefetchGroups(arns)
                failed == {k \in DOMAIN groups : outcomes[k] /= "ok"}
                n      == IF failed = {} THEN Len(groups)
                          ELSE CHOOSE k \in failed : \A j \in failed : k <= j
                calls  == [k \in 1..n |-> [region |-> groups[k].region,
                                           resource |-> groups[k].resource,
                                           outcome |-> outcomes[k]]]
                got    == UNION {FetchedGeofences(groups[k]) :
                                   k \in {j \in 1..n : outcomes[j] = "ok"}}
            IN [exception |->
                   IF failed = {} THEN NoException
                   ELSE IF outcomes[n] = "ClientError" THEN PrefetchError(groups[n])
                   ELSE Uncaught(outcomes[n]),
                geofences |-> got,
                calls |-> calls]

----------------------------------------------------------------------------
(* get_exclusion_areas.                                                    *)

OnlyOneError ==
    LambdaException(400, "Only one of {Circle, Polygon, Arn} may be provided per Area.",
                    << >>)
UnrecognizedServiceError(service) ==
    LambdaException(400, "Unrecognized service", <<service>>)
GeofenceMissingWithoutId(str) ==
    LambdaException(500, "Unable to fetch geofence", <<ArnWithoutId(str)>>)
GeofenceMissingError(str) ==
    LambdaException(500, "Unable to fetch geofence", <<str>>)
InvalidCircleError(key) == LambdaException(400, "Invalid Circle area", <<key>>)

(* Polygon(shell, holes...): the first ring is the shell, the others are holes.   *)
PolygonRegion(rings) == rings[1] \ UNION {rings[k] : k \in 2..Len(rings)}

(* How many of circle, polygon, arn are kept by filter(lambda x: x, ...).  *)
SpecifiedCount(area) ==
    (IF CircleTruthy(area.Circle) THEN 1 ELSE 0)
    + (IF PolygonTruthy(area.Polygon) THEN 1 ELSE 0)
    + (IF ArnTruthy(area.Arn) THEN 1 ELSE 0)

(* One turn of the loop over the areas: the exception it raises (if any)   *)
(* and the shapes it appends.                                              *)
ResolveArea(area, geofences) ==
    LET arn     == area.Arn.str
        found   == {g \in geofences : g.key = arn}
        fence   == CHOOSE g \in found : TRUE
        useArn  == ArnTruthy(area.Arn)
        polygon == IF useArn /\ PolygonTruthy(fence.Geometry.Polygon)
                   THEN fence.Geometry.Polygon ELSE area.Polygon
        circle  == IF useArn /\ ~PolygonTruthy(fence.Geometry.Polygon)
                             /\ CircleTruthy(fence.Geometry.Circle)
                   THEN fence.Geometry.Circle ELSE area.Circle
        circles == IF CircleTruthy(circle)
                   THEN <<CircleShape(circle.Center, circle.Radius)>> ELSE << >>
        polys   == IF PolygonTruthy(polygon)
                   THEN <<PolygonShape(PolygonRegion(polygon.rings))>> ELSE << >>
        raise(e) == [exception |-> e, shapes |-> << >>]
    IN IF SpecifiedCount(area) /= 1 THEN raise(OnlyOneError)
       ELSE IF useArn /\ ~ArnParses(arn) THEN raise(Uncaught("IndexError"))
       ELSE IF useArn /\ parse_arn(arn).service /= "geo"
            THEN raise(UnrecognizedServiceError(parse_arn(arn).service))
       ELSE IF useArn /\ found = {} THEN raise(GeofenceMissingError(arn))
       ELSE IF CircleTruthy(circle) /\ "Center" \notin circle.keys
            THEN raise(InvalidCircleError("Center"))
       ELSE IF CircleTruthy(circle) /\ "Radius" \notin circle.keys
            THEN raise(InvalidCircleError("Radius"))
       ELSE [exception |-> NoException, shapes |-> circles \o polys]

RECURSIVE get_exclusion_areas(_, _)
get_exclusion_areas(areas, geofences) ==
    IF areas = << >> THEN [exception |-> NoException, shapes |-> << >>]
    ELSE LET first == ResolveArea(Head(areas), geofences)
             rest  == get_exclusion_areas(Tail(areas), geofences)
         IN IF first.exception.raised /= "" THEN first
            ELSE [exception |-> rest.exception,
                  shapes |-> IF rest.exception.raised /= "" THEN << >>
                             ELSE first.shapes \o rest.shapes]

----------------------------------------------------------------------------
(* The exclusion branch of handle (lines 202-291).                         *)

(* edges.xs(0, level="key"): the key 0 rows, in the table's order.         *)
ForwardRows(rows) == SelectSeq(rows, LAMBDA r : r.key = 0)

(* Lines 214-218: the clipped geometry and its length.                     *)
ClipRows(rows, shapes) ==
    [i \in 1..Len(rows) |->
        LET g == LineDifference(rows[i].geometry, shapes)
        IN [rows[i] EXCEPT !.geometry = g, !.length = GeomLength(g)]]

(* Lines 221-224: the nodes whose point was masked out.                    *)
NodesToRemove(nodeTable, shapes) ==
    {n \in DOMAIN nodeTable : Covers(shapes, nodeTable[n])}

(* The remapping with one replacement per removed node instead of one per  *)
(* mention: the edges of a removed node stay joined to each other.         *)
RemapSharedIds(rows, starting_node_id, removed_nodes) ==
    LET shared(n) == starting_node_id + Cardinality({m \in removed_nodes : m < n})
    IN [i \in 1..Len(rows) |->
          [rows[i] EXCEPT
              !.u = IF @ \in removed_nodes THEN shared(@) ELSE @,
              !.v = IF @ \in removed_nodes THEN shared(@) ELSE @]]

(* remap_missing_nodes(starting_node_id, removed_nodes) mapped over the    *)
(* index, row after row: every mention of a removed node takes the next id.*)
RECURSIVE remap_missing_nodes(_, _, _)
remap_missing_nodes(rows, starting_node_id, removed_nodes) ==
    IF rows = << >> THEN << >>
    ELSE LET r  == Head(rows)
             u  == IF r.u \in removed_nodes THEN starting_node_id ELSE r.u
             n1 == IF r.u \in removed_nodes THEN starting_node_id + 1
                   ELSE starting_node_id
             v  == IF r.v \in removed_nodes THEN n1 ELSE r.v
             n2 == IF r.v \in removed_nodes THEN n1 + 1 ELSE n1
         IN <<[r EXCEPT !.u = u, !.v = v]>>
            \o remap_missing_nodes(Tail(rows), n2, removed_nodes)

(* make_nodes(row): row.geometry.coords exists for a LineString with       *)
(* coordinates only: the empty geometry has no coords[0] (IndexError) and  *)
(* a MultiLineString has no coords (NotImplementedError).                  *)
MakeNodesException(rows, max_node_id) ==
    LET bad == {i \in DOMAIN rows :
                  /\ rows[i].u > max_node_id \/ rows[i].v > max_node_id
                  /\ ~IsLineString(rows[i].geometry)}
        i0  == CHOOSE i \in bad : \A j \in bad : i <= j
    IN IF bad = {} THEN NoException
       ELSE IF IsEmptyGeom(rows[i0].geometry) THEN Uncaught("IndexError")
       ELSE Uncaught("NotImplementedError")

(* Lines 250-271: the u-side nodes, then the v-side nodes, then            *)
(* drop_duplicates(), which compares the rows' columns (the geometry) and  *)
(* not their index, and keeps the first of equal rows.                     *)
SyntheticNodes(rows, max_node_id) ==
    LET us == SelectSeq(rows, LAMBDA r : r.u > max_node_id)
        vs == SelectSeq(rows, LAMBDA r : r.v > max_node_id)
    IN [i \in 1..Len(us) |-> [osmid |-> us[i].u, geometry |-> us[i].geometry[1][1]]]
       \o [i \in 1..Len(vs) |->
             [osmid |-> vs[i].v,
              geometry |-> vs[i].geometry[1][Len(vs[i].geometry[1])]]]

DropDuplicates(entries) ==
    SelectSeq([i \in 1..Len(entries) |->
                  [entries[i] EXCEPT !.osmid =
                      IF \E j \in 1..(i - 1) : entries[j].geometry = entries[i].geometry
                      THEN 0 ELSE entries[i].osmid]],
              LAMBDA e : e.osmid /= 0)

NodeTableOf(entries) ==
    [n \in {entries[i].osmid : i \in DOMAIN entries} |->
        (CHOOSE e \in Range(entries) : e.osmid = n).geometry]

(* The whole branch.  extra_nodes has a u_geometry (v_geometry) column     *)
(* only when make_nodes set it on some row; reading a missing column       *)
(* raises KeyError.                                                        *)
Specialize(nodeTable, rows, shapes) ==
    LET removed  == NodesToRemove(nodeTable, shapes)
        kept     == [n \in DOMAIN nodeTable \ removed |-> nodeTable[n]]
        max_node_id == MaxOf(DOMAIN nodeTable)
        remapped == remap_missing_nodes(ClipRows(ForwardRows(rows), shapes),
                                        max_node_id + 1, removed)
        raised   == MakeNodesException(remapped, max_node_id)
        noU      == \A i \in DOMAIN remapped : remapped[i].u <= max_node_id
        noV      == \A i \in DOMAIN remapped : remapped[i].v <= max_node_id
        new      == NodeTableOf(DropDuplicates(SyntheticNodes(remapped, max_node_id)))
        allNodes == kept @@ new
        allRows  == remapped \o ReverseEdges(remapped)
        fail(e)  == [exception |-> e, local_nodes |-> kept, local_edges |-> remapped,
                     G |-> GraphFromGdfs(<< >>, << >>, "request")]
    IN IF raised.raised /= "" THEN fail(raised)
       ELSE IF noU \/ noV THEN fail(Uncaught("KeyError"))
       ELSE [exception |-> NoException, local_nodes |-> allNodes,
             local_edges |-> allRows,
             G |-> GraphFromGdfs(allNodes, allRows, "request")]

----------------------------------------------------------------------------
(* split_graph (routing/__init__.py).                                      *)

MinOf(S) == CHOOSE m \in S : \A x \in S : m <= x

(* The squared distance of a target to a geometry.  The nearest point of   *)
(* a line is taken among its coordinates (see DiscretisationExact).        *)
GeomDist2(target, geom) ==
    MinOf({Dist2(target, GeomPoints(geom)[i]) : i \in DOMAIN GeomPoints(geom)})

(* sjoin_nearest joined back to the edge table: the rows at the least      *)
(* distance, in the table's order; empty geometries are never joined.      *)
Candidates(target, rows) ==
    LET live == SelectSeq(rows, LAMBDA r : ~IsEmptyGeom(r.geometry))
        best == MinOf({GeomDist2(target, live[i].geometry) : i \in DOMAIN live})
    IN SelectSeq(live, LAMBDA r : GeomDist2(target, r.geometry) = best)

(* max(edges.index.max()) + 1: the largest (u, v, key) in lexicographic    *)
(* order, then the largest of its three numbers, plus one.                 *)
IndexLess(a, b) ==
    \/ a.u < b.u
    \/ a.u = b.u /\ a.v < b.v
    \/ a.u = b.u /\ a.v = b.v /\ a.key < b.key

IndexMax(rows) ==
    CHOOSE r \in Range(rows) :
        \A o \in Range(rows) : IndexLess(o, r) \/ (o.u = r.u /\ o.v = r.v /\ o.key = r.key)

NextNodeId(G, rows) == MaxOf({IndexMax(rows).u, IndexMax(rows).v, IndexMax(rows).key}) + 1

(* line_locate_point: the first coordinate of the geometry nearest to the  *)
(* target, and the length of the geometry up to it.                        *)
LocateIndex(target, geom) ==
    LET pts == GeomPoints(geom)
    IN MinOf({i \in DOMAIN pts : Dist2(target, pts[i]) = GeomDist2(target, geom)})

RECURSIVE LengthUpTo(_, _)
LengthUpTo(geom, i) ==
    IF geom = << >> THEN 0
    ELSE IF i <= Len(Head(geom)) THEN LineLength(SubSeq(Head(geom), 1, i))
    ELSE LineLength(Head(geom)) + LengthUpTo(Tail(geom), i - Len(Head(geom)))

(* Where normalized_distance falls: "start" (<= 0), "end" (>= 1) or        *)
(* "interior".                                                             *)
LocateCase(target, geom) ==
    LET at == LengthUpTo(geom, LocateIndex(target, geom))
    IN IF at = 0 THEN "start"
       ELSE IF at = GeomLength(geom) THEN "end"
       ELSE "interior"

(* Lines 52-109: the key 0 rows to add.                                    *)
NewEdges(edge, target, node_id) ==
    LET geom == edge.geometry
        i    == LocateIndex(target, geom)
        point_on_line == GeomPoints(geom)[i]
        connector == << <<point_on_line, target>> >>
        intermediate_node_id == node_id + 1
        row(u, v, g) == EdgeRow(u, v, 0, g, GeomLength(g))
    IN CASE LocateCase(target, geom) = "interior" ->
              << row(edge.u, intermediate_node_id, <<SubSeq(geom[1], 1, i)>>),
                 row(intermediate_node_id, edge.v,
                     <<SubSeq(geom[1], i, Len(geom[1]))>>),
                 row(intermediate_node_id, node_id, connector) >>
         [] LocateCase(target, geom) = "start" ->
              << row(edge.u, node_id, connector) >>
         [] OTHER ->
              << row(edge.v, node_id, connector) >>

NewNodes(edge, target, node_id) ==
    IF LocateCase(target, edge.geometry) = "interior"
    THEN (node_id :> target)
         @@ ((node_id + 1) :>
                GeomPoints(edge.geometry)[LocateIndex(target, edge.geometry)])
    ELSE (node_id :> target)

(* MultiDiGraph.new_edge_key: the number of edges from u to v, raised      *)
(* until unused.                                                           *)
RECURSIVE FreeKey(_, _)
FreeKey(used, k) == IF k \in used THEN FreeKey(used, k + 1) ELSE k

new_edge_key(G, u, v) ==
    LET used == {e.key : e \in {x \in G.edge : x.u = u /\ x.v = v}}
    IN FreeKey(used, Cardinality(used))

(* G.update(other): add_nodes_from(other.nodes.data()), then               *)
(* add_edges_from(other.edges.data()); the data triples carry no key, so   *)
(* every edge is added under a new key.  A node other knows without        *)
(* attributes keeps the attributes it has in G.                            *)
RECURSIVE AddEdges(_, _)
AddEdges(G, rows) ==
    IF rows = << >> THEN G
    ELSE LET r == Head(rows)
             e == [r EXCEPT !.key = new_edge_key(G, r.u, r.v)]
         IN AddEdges([G EXCEPT !.edge = @ \cup {e}], Tail(rows))

GraphUpdate(G, other, otherRows) ==
    LET ids == DOMAIN G.node \cup DOMAIN other.node
        merged == [n \in ids |->
                      IF n \in DOMAIN other.node /\ other.node[n] /= NoPoint
                      THEN other.node[n]
                      ELSE IF n \in DOMAIN G.node THEN G.node[n] ELSE NoPoint]
    IN AddEdges([G EXCEPT !.node = merged], GraphToGdfsEdges(otherRows))

(* split_graph(G, target, edges, utm): the exception it ends with (if any),*)
(* the id given to the target, the edge table returned and G as updated.   *)
split_graph(G, target, rows) ==
    LET candidates == Candidates(target, rows)
        edge    == candidates[1]
        node_id == NextNodeId(G, rows)
        new_edges == NewEdges(edge, target, node_id)
        all_new_edges == new_edges \o ReverseEdges(new_edges)
        other   == GraphFromGdfs(NewNodes(edge, target, node_id), all_new_edges,
                                 "request")
        fail(e) == [exception |-> e, node_id |-> node_id, edges |-> rows, G |-> G]
    IN IF \A i \in DOMAIN rows : IsEmptyGeom(rows[i].geometry)
       THEN fail(Uncaught("IndexError"))
       ELSE IF LocateCase(target, edge.geometry) = "interior"
               /\ ~IsLineString(edge.geometry)
       THEN fail(Uncaught("NotImplementedError"))
       ELSE [exception |-> NoException, node_id |-> node_id,
             edges |-> rows \o all_new_edges,
             G |-> GraphUpdate(G, other, all_new_edges)]

----------------------------------------------------------------------------
(* ox.shortest_path(G, origin_id, destination_id, weight="length") and     *)
(* ox.routing.route_to_gdf.                                                *)

(* The length shortest_path weighs a step with: the least length among    *)
(* the parallel edges from u to v.                                         *)
StepLength(G, u, v) ==
    MinOf({e.length : e \in {x \in G.edge : x.u = u /\ x.v = v}})

(* Every simple path from n to the destination off the visited nodes.      *)
RECURSIVE SimplePaths(_, _, _, _)
SimplePaths(G, n, destination_id, visited) ==
    IF n = destination_id THEN {<<n>>}
    ELSE UNION {{<<n>> \o p : p \in SimplePaths(G, w, destination_id,
                                                  visited \cup {n})} :
                w \in {e.v : e \in {x \in G.edge : x.u = n}} \ (visited \cup {n})}

PathLength(G, path) ==
    SumSeq([i \in 1..(Len(path) - 1) |-> StepLength(G, path[i], path[i + 1])])

(* The routes shortest_path may return (any path of least total length);   *)
(* the empty set stands for None, returned when networkx finds no path.    *)
ShortestPaths(G, origin_id, destination_id) ==
    LET all == {<<PathLength(G, p), p>> :
                   p \in SimplePaths(G, origin_id, destination_id, {})}
    IN {x[2] : x \in {y \in all : \A o \in all : y[1] <= o[1]}}

(* route_to_gdf: for each step of the route the edge of least length       *)
(* (the first such key).                                                   *)
RouteFeatures(G, route) ==
    [i \in 1..(Len(route) - 1) |->
        LET par  == {e \in G.edge : e.u = route[i] /\ e.v = route[i + 1]}
            best == {e \in par : \A o \in par : e.length <= o.length}
        IN CHOOSE e \in best : \A o \in best : e.key <= o.key]

----------------------------------------------------------------------------
(* The requests drawn.                                                     *)

Origins == {<<0, 0>>, <<3, 1>>, <<1, 2>>}
Destinations == {<<2, 0>>, <<3, 1>>, <<5, 0>>, <<2, 2>>}

MidEdgeRegion == {<<1, 0>>, <<2, 0>>}

YardArn == ArnString("geo", "us-west-2", "sites", "yard")

AreaObjects ==
    { AreaObject(CircleValue(<<2, 0>>, 1), NoPolygon, NoArn),
      AreaObject(CircleValue(<<3, 1>>, 1), NoPolygon, NoArn),
      AreaObject(CircleValue(<<2, 0>>, 0), NoPolygon, NoArn),
      AreaObject(CircleWithoutCenter(1), NoPolygon, NoArn),
      AreaObject(NoCircle, PolygonValue(MidEdgeRegion), NoArn),
      AreaObject(CircleValue(<<2, 0>>, 1), PolygonValue(MidEdgeRegion), NoArn),
      AreaObject(CircleValue(<<2, 0>>, 1), EmptyPolygon, NoArn),
      AreaObject(NoCircle, NoPolygon, NoArn),
      AreaObject(NoCircle, NoPolygon, ArnValue(YardArn)),
      AreaObject(NoCircle, NoPolygon, ArnValue(ArnString("geo", "us-west-2", "sites", "gate"))),
      AreaObject(NoCircle, NoPolygon, ArnValue(ArnString("s3", "us-west-2", "sites", "yard"))),
      AreaObject(NoCircle, NoPolygon, ArnValue(<<"yard">>)),
      AreaObject(CircleValue(<<2, 0>>, 1), NoPolygon, ArnValue(YardArn)) }

AreaLists == UNION {[1..n -> AreaObjects] : n \in 0..MaxAreas}

(* The body of an event: with Origin and Destination, or without Origin.   *)
Events ==
    {[keys |-> {"Origin", "Destination", "Avoid"}, Origin |-> o, Destination |-> d,
      Areas |-> a] : o \in Origins, d \in Destinations, a \in AreaLists}
    \cup {[keys |-> {"Destination"}, Origin |-> <<0, 0>>, Destination |-> d,
           Areas |-> << >>] : d \in Destinations}

----------------------------------------------------------------------------
(* Responses.                                                              *)

CorsHeader == <<"Access-Control-Allow-Origin", "*">>
GeoJsonHeader == <<"Content-Type", "application/geo+json">>

NoResponse ==
    [outcome |-> "none", statusCode |-> 0, headers |-> {}, Error |-> NoException,
     route |-> << >>, features |-> << >>]

(* Lines 315-322.                                                          *)
RouteResponse(route, features) ==
    [outcome |-> "returned", statusCode |-> 200,
     headers |-> {CorsHeader, GeoJsonHeader}, Error |-> NoException,
     route |-> route, features |-> features]

(* Lines 323-332: "except LambdaException as e".  Any other exception      *)
(* leaves handle.                                                          *)
ExceptionResponse(e) ==
    IF e.raised = "LambdaException"
    THEN [outcome |-> "returned", statusCode |-> e.status, headers |-> {CorsHeader},
          Error |-> e, route |-> << >>, features |-> << >>]
    ELSE [outcome |-> "raised", statusCode |-> 0, headers |-> {}, Error |-> e,
          route |-> << >>, features |-> << >>]

NoRouteAnswered200 == LambdaException(200, "No route found.", << >>)
NoRouteError == LambdaException(404, "No route found.", << >>)

----------------------------------------------------------------------------
(* prepare.py: the graph is built from the input lines.  Coordinates are   *)
(* whole metres of the intermediate CRS.                                   *)

(* "threshold=5" of make_nodes and make_edges, in metres.                  *)
threshold == 5

WithinThreshold(p, q) == Dist2(p, q) <= threshold * threshold

(* get_coords: every coordinate of every line, line after line; a single   *)
(* simple LineString comes back from node() and line_merge() as it was.    *)
get_coords(lines) == Concat(lines)

(* sjoin_nearest(coords, coords, max_distance=threshold, exclusive=True):  *)
(* for the point a the points nearest to it among those that are not equal *)
(* to it and lie within the threshold; all of them when several tie.       *)
NearestOthers(pts, a) ==
    LET others == {b \in DOMAIN pts : pts[b] /= pts[a] /\ WithinThreshold(pts[a], pts[b])}
    IN {b \in others :
           \A o \in others : Dist2(pts[a], pts[b]) <= Dist2(pts[a], pts[o])}

(* dest_groups, origin_groups and clusters: of the points that have such   *)
(* neighbours, those with the same list of nearest neighbours, together    *)
(* with these neighbours; equal sets are one cluster.                      *)
OriginGroups(pts) ==
    LET dest_groups == {a \in DOMAIN pts : NearestOthers(pts, a) /= {}}
    IN {{a \in dest_groups : NearestOthers(pts, a) = S} \cup S :
           S \in {NearestOthers(pts, a) : a \in dest_groups}}

RECURSIVE SumOver(_, _, _)
SumOver(pts, S, k) ==
    IF S = {} THEN 0
    ELSE LET i == CHOOSE i \in S : TRUE
         IN pts[i][k] + SumOver(pts, S \ {i}, k)

(* clustered: the mean x and the mean y of a cluster's members.            *)
ClusterMean(pts, c) ==
    <<SumOver(pts, c, 1) \div Cardinality(c), SumOver(pts, c, 2) \div Cardinality(c)>>

(* uniq_coords: the distinct coordinates in the order of                   *)
(* groupby(["x", "y"]).                                                    *)
RECURSIVE SortPoints(_)
SortPoints(S) ==
    IF S = {} THEN << >>
    ELSE LET first == CHOOSE p \in S : \A q \in S \ {p} :
                          p[1] < q[1] \/ (p[1] = q[1] /\ p[2] < q[2])
         IN <<first>> \o SortPoints(S \ {first})

(* cluster(coords, crs, threshold): the cluster means and the points that  *)
(* are in no cluster (non_clustered); node_id is the place in the sequence *)
(* less one.                                                               *)
cluster(pts) ==
    SortPoints({ClusterMean(pts, c) : c \in OriginGroups(pts)}
               \cup {pts[i] : i \in DOMAIN pts \ UNION OriginGroups(pts)})

(* make_edges, lines 155-201: a coordinate of a line is replaced by the    *)
(* point of a node within the threshold of it, at the first index where    *)
(* the coordinate stands in the line.                                      *)
Substitutions(line, nodeSeq) ==
    {<<MinOf({j \in DOMAIN line : line[j] = line[i]}), nodeSeq[n]>> :
        <<i, n>> \in {x \in (DOMAIN line) \X (DOMAIN nodeSeq) :
                         WithinThreshold(line[x[1]], nodeSeq[x[2]])}}

(* fn, lines 176-178: "for i, s in substitutions: coords[i] = s" over a    *)
(* set; when two nodes are within the threshold of one coordinate either   *)
(* may be written last.                                                    *)
SubstitutedLines(line, nodeSeq) ==
    LET subs == Substitutions(line, nodeSeq)
        idx  == {s[1] : s \in subs}
    IN {[i \in DOMAIN line |-> IF i \in idx THEN f[i] ELSE line[i]] :
           f \in {g \in [idx -> Range(nodeSeq)] : \A i \in idx : <<i, g[i]>> \in subs}}

(* fn, lines 181-193: the split places and the pieces between them.        *)
Splits(line, nodeSeq) ==
    {1, Len(line)} \cup {s[1] : s \in Substitutions(line, nodeSeq)}

RECURSIVE Pieces(_, _, _)
Pieces(coords, splits, start) ==
    IF \A i \in splits : i <= start THEN << >>
    ELSE LET end == MinOf({i \in splits : i > start})
         IN <<SubSeq(coords, start, end)>> \o Pieces(coords, splits, end)

(* Lines 208-229: a piece joined to the nodes on its first and on its last *)
(* coordinate; NaN where no node has that coordinate.                      *)
NaN == -1

SegmentsOf(coords, splits, nodeSeq) ==
    LET pieces == Pieces(coords, splits, 1)
        node_id(p) == IF \E n \in DOMAIN nodeSeq : nodeSeq[n] = p
                      THEN (CHOOSE n \in DOMAIN nodeSeq : nodeSeq[n] = p) - 1
                      ELSE NaN
    IN [k \in 1..Len(pieces) |->
          [u |-> node_id(pieces[k][1]),
           v |-> node_id(pieces[k][Len(pieces[k])]),
           line |-> pieces[k]]]

(* The node table of graph_from_gdfs: node_id -> point.                    *)
NodeTable(nodeSeq) == [n \in 0..(Len(nodeSeq) - 1) |-> nodeSeq[n + 1]]

----------------------------------------------------------------------------
(* clean.py: the features of a converted KML file are grouped by their     *)
(* properties and each group's geometries are unioned and cleaned.         *)

(* A geometry: its type, its members when it is a Multi* or a collection,  *)
(* and, for a Polygon, its name and the areas of its holes in units of     *)
(* 1e-11 square degrees.                                                   *)
Atom(type, name, holes) == [type |-> type, name |-> name, holes |-> holes, geoms |-> << >>]
Multi(type, geoms) == [type |-> type, name |-> "", holes |-> << >>, geoms |-> geoms]

(* "sliver_threshold = 1e-10", in the unit of the hole areas.              *)
sliver_threshold == 10

(* isinstance(x, Polygon): shapely's Multi* classes are not subclasses of  *)
(* the single ones.                                                        *)
IsPolygon(g) == g.type = "Polygon"

(* tweeze: the holes of at most the sliver area are filled, in a Polygon   *)
(* and in the members of a MultiPolygon or of a collection.                *)
RECURSIVE tweeze(_)
tweeze(g) ==
    IF IsPolygon(g)
    THEN [g EXCEPT !.holes = SelectSeq(g.holes, LAMBDA area : area > sliver_threshold)]
    ELSE IF g.type \in {"MultiPolygon", "GeometryCollection"}
    THEN [g EXCEPT !.geoms = [i \in DOMAIN g.geoms |-> tweeze(g.geoms[i])]]
    ELSE g

(* lint_roll, lines 53-63.                                                 *)
lint_roll(g) ==
    LET polygons    == SelectSeq(g.geoms, IsPolygon)
        linestrings == SelectSeq(g.geoms, LAMBDA x : x.type = "LineString")
    IN IF g.type = "GeometryCollection" /\ polygons /= << >> /\ linestrings /= << >>
       THEN IF Len(polygons) > 1 THEN Multi("MultiPolygon", polygons) ELSE polygons[1]
       ELSE g

(* union_all of geometries whose single parts neither touch nor overlap    *)
(* unless they are the same part: the distinct parts, as one geometry.     *)
RECURSIVE Distinct(_)
Distinct(seq) ==
    IF seq = << >> THEN << >>
    ELSE LET init == Distinct(SubSeq(seq, 1, Len(seq) - 1))
             last == seq[Len(seq)]
         IN IF \E i \in DOMAIN init : init[i] = last THEN init ELSE Append(init, last)

SingleParts(g) ==
    IF g.geoms = << >> THEN <<g>>
    ELSE Concat([i \in DOMAIN g.geoms |->
                    IF g.geoms[i].geoms = << >> THEN <<g.geoms[i]>> ELSE g.geoms[i].geoms])

union_all(geometries) ==
    LET parts == Distinct(Concat([i \in DOMAIN geometries |-> SingleParts(geometries[i])]))
        of(type) == SelectSeq(parts, LAMBDA p : p.type = type)
    IN IF Len(parts) = 1 THEN parts[1]
       ELSE IF \A i \in DOMAIN parts : parts[i].type = parts[1].type
       THEN Multi("Multi" \o parts[1].type, parts)
       ELSE Multi("GeometryCollection", of("Polygon") \o of("LineString") \o of("Point"))

(* json.dumps(properties): the text, token by token, with the keys in the  *)
(* order in which the mapping holds them.  A JSON string keeps its quotes. *)
json_dumps(pairs) ==
    <<"{">>
    \o Concat([i \in DOMAIN pairs |->
                  (IF i > 1 THEN <<",">> ELSE << >>) \o <<pairs[i][1], ":", pairs[i][2]>>])
    \o <<"}">>

(* json.loads of such a text: the pairs, in the order of the text.         *)
json_loads(text) ==
    [k \in 1..((Len(text) - 1) \div 4) |-> <<text[4 * k - 2], text[4 * k]>>]

keyfunc(x) == json_dumps(x.properties)

(* The tokens in the order of their first characters, as sorted() compares *)
(* the texts: '"' < ',' < ':' < 'f' < 't' < '{' < '}'.                     *)
TokenOrder ==
    <<"\"name\"", "\"paved\"", "\"road\"", "\"surface\"", "\"visibility\"",
      ",", ":", "false", "true", "{", "}">>

TextLess(a, b) ==
    LET rank(t) == CHOOSE i \in DOMAIN TokenOrder : TokenOrder[i] = t
    IN \E i \in 1..Len(b) :
          /\ \A j \in 1..(i - 1) : j <= Len(a) /\ a[j] = b[j]
          /\ \/ i > Len(a)
             \/ rank(a[i]) < rank(b[i])

(* sorted(..., key=keyfunc): stable.                                       *)
RECURSIVE SortedByKey(_)
SortedByKey(features) ==
    IF features = << >> THEN << >>
    ELSE LET rest == SortedByKey(SubSeq(features, 1, Len(features) - 1))
             x    == features[Len(features)]
             n    == Cardinality({i \in DOMAIN rest : ~TextLess(keyfunc(x), keyfunc(rest[i]))})
         IN SubSeq(rest, 1, n) \o <<x>> \o SubSeq(rest, n + 1, Len(rest))

(* x["properties"].get("visibility", True) as a condition: true when the   *)
(* key is missing, else the truth of its value.                            *)
Visible(x) ==
    \A i \in DOMAIN x.properties :
        x.properties[i][1] = "\"visibility\""
            => x.properties[i][2] \notin {"false", "null", "0", "\"\""}

(* itertools.groupby over the sorted features: runs of equal keys.         *)
RECURSIVE GroupBy(_)
GroupBy(features) ==
    IF features = << >> THEN << >>
    ELSE LET k   == keyfunc(features[1])
             run == CHOOSE n \in 1..Len(features) :
                       /\ \A i \in 1..n : keyfunc(features[i]) = k
                       /\ n < Len(features) => keyfunc(features[n + 1]) /= k
         IN <<[key |-> k, features |-> SubSeq(features, 1, run)]>>
            \o GroupBy(SubSeq(features, run + 1, Len(features)))

(* Lines 85-102: the feature written for a group.                          *)
Feature(geometry, properties) == [geometry |-> geometry, properties |-> properties]

NewFeature(group) ==
    Feature(lint_roll(tweeze(union_all([i \in DOMAIN group.features |->
                                            group.features[i].geometry]))),
            json_loads(group.key))

----------------------------------------------------------------------------
(* The state: the module's globals, then the locals of the handle call in  *)
(* progress and where it stands.                                           *)

VARIABLES original_graph, nodes, edges,
          pc, event, G, geofences, calls, exclusion_areas,
          local_nodes, local_edges, all_edges, origin_id, destination_id,
          response,
          prep, clean

globals == <<original_graph, nodes, edges>>
locals == <<event, G, geofences, calls, exclusion_areas, local_nodes, local_edges,
            all_edges, origin_id, destination_id, response>>
(* The offline tools' state: prepare.py's run and clean.py's run.           *)
tools == <<prep, clean>>
vars == <<original_graph, nodes, edges, pc, event, G, geofences, calls,
          exclusion_areas, local_nodes, local_edges, all_edges, origin_id,
          destination_id, response, prep, clean>>

NoEvent == [keys |-> {}, Origin |-> <<0, 0>>, Destination |-> <<0, 0>>, Areas |-> << >>]
NoGraph == GraphFromGdfs(<< >>, << >>, "none")

Idle ==
    /\ pc = "idle"
    /\ event = NoEvent
    /\ G = NoGraph
    /\ geofences = {}
    /\ calls = << >>
    /\ exclusion_areas = << >>
    /\ local_nodes = << >>
    /\ local_edges = << >>
    /\ all_edges = << >>
    /\ origin_id = 0
    /\ destination_id = 0
    /\ response = NoResponse

(* Lines 19-25: the graph is loaded and its tables are taken once.         *)
NoPrep ==
    [stage |-> "none", lines |-> << >>, coords |-> << >>, clusters |-> {},
     once |-> << >>, nodes |-> << >>, segments |-> << >>, graph |-> NoGraph]

NoClean ==
    [stage |-> "none", features |-> << >>, groups |-> << >>, output |-> << >>,
     geometry |-> Multi("GeometryCollection", << >>),
     rolled |-> Multi("GeometryCollection", << >>)]

(* The module is loaded: lines 19-25.                                      *)
Loaded ==
    /\ original_graph = StaticGraph
    /\ nodes = StaticNodes
    /\ edges = StaticEdges
    /\ Idle

Init ==
    /\ Loaded
    /\ prep = NoPrep
    /\ clean = NoClean

(* handle(event) is called.                                                *)
Receive ==
    /\ pc = "idle"
    /\ \E e \in Events : event' = e
    /\ pc' = "parse"
    /\ UNCHANGED <<globals, tools, G, geofences, calls, exclusion_areas, local_nodes,
                   local_edges, all_edges, origin_id, destination_id, response>>

(* The call ends with the response r.                                      *)
Finish(r) ==
    /\ response' = r
    /\ pc' = "done"

(* Lines 180-192: the body is read and the graph copied; a body without    *)
(* Origin (Destination) raises KeyError.                                   *)
Parse ==
    /\ pc = "parse"
    /\ IF {"Origin", "Destination"} \subseteq event.keys
       THEN /\ G' = GraphCopy(original_graph)
            /\ pc' = "prefetch"
            /\ UNCHANGED response
       ELSE /\ Finish(ExceptionResponse(Uncaught("KeyError")))
            /\ UNCHANGED G
    /\ UNCHANGED <<globals, tools, event, geofences, calls, exclusion_areas, local_nodes,
                   local_edges, all_edges, origin_id, destination_id>>

(* Line 197: prefetch_geofences(areas); each catalog call ends in one of   *)
(* FetchOutcomes.                                                          *)
GroupCount(areas) ==
    IF \A i \in DOMAIN PrefetchArns(areas) : ArnParses(PrefetchArns(areas)[i])
    THEN Len(PrefetchGroups(PrefetchArns(areas))) ELSE 0

Prefetch ==
    /\ pc = "prefetch"
    /\ \E outcomes \in [1..GroupCount(event.Areas) -> FetchOutcomes] :
          LET r == prefetch_geofences(event.Areas, outcomes)
          IN /\ geofences' = r.geofences
             /\ calls' = r.calls
             /\ IF r.exception.raised = ""
                THEN pc' = "resolve" /\ UNCHANGED response
                ELSE Finish(ExceptionResponse(r.exception))
    /\ UNCHANGED <<globals, tools, event, G, exclusion_areas, local_nodes, local_edges,
                   all_edges, origin_id, destination_id>>

(* Line 200: get_exclusion_areas(areas, geofences).                        *)
Resolve ==
    /\ pc = "resolve"
    /\ LET r == get_exclusion_areas(event.Areas, geofences)
       IN IF r.exception.raised = ""
          THEN /\ exclusion_areas' = r.shapes
               /\ pc' = "specialize"
               /\ UNCHANGED response
          ELSE /\ Finish(ExceptionResponse(r.exception))
               /\ UNCHANGED exclusion_areas
    /\ UNCHANGED <<globals, tools, event, G, geofences, calls, local_nodes, local_edges,
                   all_edges, origin_id, destination_id>>

(* Lines 202-295: with exclusion areas a graph of the request's own is     *)
(* built; without, the tables of the module are referenced.                *)
SpecializeStep ==
    /\ pc = "specialize"
    /\ IF ~CollectionIsEmpty(exclusion_areas)
       THEN LET r == Specialize(nodes, edges, exclusion_areas)
            IN IF r.exception.raised = ""
               THEN /\ local_nodes' = r.local_nodes
                    /\ local_edges' = r.local_edges
                    /\ G' = r.G
                    /\ pc' = "origin"
                    /\ UNCHANGED response
               ELSE /\ Finish(ExceptionResponse(r.exception))
                    /\ UNCHANGED <<local_nodes, local_edges, G>>
       ELSE /\ local_nodes' = nodes
            /\ local_edges' = edges
            /\ pc' = "origin"
            /\ UNCHANGED <<G, response>>
    /\ UNCHANGED <<globals, tools, event, geofences, calls, exclusion_areas, all_edges,
                   origin_id, destination_id>>

(* What G.update writes reaches original_graph when G is that very graph.  *)
GraphWritten(g) == IF G.owner = "static" THEN g ELSE original_graph

(* Lines 298-300: split_graph(G, origin, local_edges, utm).                *)
SpliceOrigin ==
    /\ pc = "origin"
    /\ LET r == split_graph(G, event.Origin, local_edges)
       IN IF r.exception.raised = ""
          THEN /\ origin_id' = r.node_id
               /\ all_edges' = r.edges
               /\ G' = r.G
               /\ original_graph' = GraphWritten(r.G)
               /\ pc' = "destination"
               /\ UNCHANGED response
          ELSE /\ Finish(ExceptionResponse(r.exception))
               /\ UNCHANGED <<origin_id, all_edges, G, original_graph>>
    /\ UNCHANGED <<tools, nodes, edges, event, geofences, calls, exclusion_areas,
                   local_nodes, local_edges, destination_id>>

(* Lines 301-303: split_graph(G, destination, all_edges, utm).             *)
SpliceDestination ==
    /\ pc = "destination"
    /\ LET r == split_graph(G, event.Destination, all_edges)
       IN IF r.exception.raised = ""
          THEN /\ destination_id' = r.node_id
               /\ G' = r.G
               /\ original_graph' = GraphWritten(r.G)
               /\ pc' = "route"
               /\ UNCHANGED response
          ELSE /\ Finish(ExceptionResponse(r.exception))
               /\ UNCHANGED <<destination_id, G, original_graph>>
    /\ UNCHANGED <<tools, nodes, edges, event, geofences, calls, exclusion_areas,
                   local_nodes, local_edges, all_edges, origin_id>>

(* Lines 308-322: the route, or "No route found.".                         *)
RouteOutcomes(g, o, d) ==
    IF ShortestPaths(g, o, d) = {}
    THEN {ExceptionResponse(NoRouteError)}
    ELSE {RouteResponse(route, RouteFeatures(g, route)) :
             route \in ShortestPaths(g, o, d)}

Route ==
    /\ pc = "route"
    /\ \E r \in RouteOutcomes(G, origin_id, destination_id) : Finish(r)
    /\ UNCHANGED <<globals, tools, event, G, geofences, calls, exclusion_areas,
                   local_nodes, local_edges, all_edges, origin_id, destination_id>>

(* handle has returned (or raised); its locals are gone.                   *)
Return ==
    /\ pc = "done"
    /\ pc' = "idle"
    /\ event' = NoEvent
    /\ G' = NoGraph
    /\ geofences' = {}
    /\ calls' = << >>
    /\ exclusion_areas' = << >>
    /\ local_nodes' = << >>
    /\ local_edges' = << >>
    /\ all_edges' = << >>
    /\ origin_id' = 0
    /\ destination_id' = 0
    /\ response' = NoResponse
    /\ UNCHANGED <<globals, tools>>

Next ==
    \/ Receive
    \/ Parse
    \/ Prefetch
    \/ Resolve
    \/ SpecializeStep
    \/ SpliceOrigin
    \/ SpliceDestination
    \/ Route
    \/ Return

Spec == Init /\ [][Next]_vars

----------------------------------------------------------------------------
(* A run of prepare(gdf) on its own: the input lines, then get_coords, the *)
(* two passes of cluster, make_edges and graph_from_gdfs.                  *)

MaxLines == 4

(* The lines a run may be given.  The first four have one end near the     *)
(* ends of the others (2 m, 4.1 m and 2 m apart); three lines meet at      *)
(* (0, 8); one line is a 2 m stub; one has an inner vertex.                *)
PrepLines ==
    << << <<0, 0>>, <<0, 8>> >>,
       << <<2, 0>>, <<2, -8>> >>,
       << <<6, 1>>, <<6, 9>> >>,
       << <<8, 1>>, <<8, -7>> >>,
       << <<0, 8>>, <<-8, 8>> >>,
       << <<-8, 8>>, <<-8, 0>> >>,
       << <<20, 0>>, <<22, 0>> >>,
       << <<0, 8>>, <<0, 14>>, <<0, 20>> >> >>

RECURSIVE Chosen(_, _)
Chosen(S, k) ==
    IF k > Len(PrepLines) THEN << >>
    ELSE (IF k \in S THEN <<PrepLines[k]>> ELSE << >>) \o Chosen(S, k + 1)

(* The means of a pass are whole metres.                                   *)
ExactMeans(pts) ==
    \A c \in OriginGroups(pts) : \A k \in 1..2 :
        SumOver(pts, c, k) % Cardinality(c) = 0

PrepInputs ==
    {ls \in {Chosen(S, 1) : S \in {T \in SUBSET (DOMAIN PrepLines) :
                                      Cardinality(T) \in 1..MaxLines}} :
        /\ ExactMeans(get_coords(ls))
        /\ ExactMeans(cluster(get_coords(ls)))}

InitPrepare ==
    /\ Loaded
    /\ clean = NoClean
    /\ \E ls \in PrepInputs : prep = [NoPrep EXCEPT !.stage = "lines", !.lines = ls]

(* prepare.py:249 and 130: coords = get_coords(gdf).                       *)
GetCoords ==
    /\ prep.stage = "lines"
    /\ prep' = [prep EXCEPT !.stage = "coords", !.coords = get_coords(prep.lines)]
    /\ UNCHANGED <<globals, locals, pc, clean>>

(* prepare.py:133: the first pass of cluster.                              *)
ClusterOnce ==
    /\ prep.stage = "coords"
    /\ prep' = [prep EXCEPT !.stage = "once",
                            !.clusters = OriginGroups(prep.coords),
                            !.once = cluster(prep.coords)]
    /\ UNCHANGED <<globals, locals, pc, clean>>

(* prepare.py:136-143: the second pass, over the nodes of the first.       *)
ClusterTwice ==
    /\ prep.stage = "once"
    /\ prep' = [prep EXCEPT !.stage = "nodes", !.nodes = cluster(prep.once)]
    /\ UNCHANGED <<globals, locals, pc, clean>>

(* prepare.py:146-229: every line with its coordinates substituted, cut at *)
(* the split places and joined to the nodes.                               *)
MakeEdgesStep ==
    /\ prep.stage = "nodes"
    /\ \E ls \in [DOMAIN prep.lines -> UNION {SubstitutedLines(prep.lines[k], prep.nodes) :
                                                 k \in DOMAIN prep.lines}] :
          /\ \A k \in DOMAIN ls : ls[k] \in SubstitutedLines(prep.lines[k], prep.nodes)
          /\ prep' = [prep EXCEPT
                 !.stage = "edges",
                 !.segments = Concat([k \in DOMAIN ls |->
                     SegmentsOf(ls[k], Splits(prep.lines[k], prep.nodes), prep.nodes)])]
    /\ UNCHANGED <<globals, locals, pc, clean>>

(* prepare.py:230-260: the key 0 and the key 1 rows, then the graph.       *)
GraphFromPrepared ==
    /\ prep.stage = "edges"
    /\ prep' = [prep EXCEPT
           !.stage = "done",
           !.graph = GraphFromGdfs(NodeTable(prep.nodes), MakeEdges(prep.segments),
                                   "prepared")]
    /\ UNCHANGED <<globals, locals, pc, clean>>

NextPrepare ==
    \/ GetCoords
    \/ ClusterOnce
    \/ ClusterTwice
    \/ MakeEdgesStep
    \/ GraphFromPrepared

SpecPrepare == InitPrepare /\ [][NextPrepare]_vars

----------------------------------------------------------------------------
(* A run of clean_geometries(fc) on its own.                               *)

MaxFeatures == 3

(* Property mappings as lists of <<key, value>> in the order of the file:  *)
(* the second and the third are the same mapping written in two orders;    *)
(* the last hides its feature.                                             *)
PropertyLists ==
    { << <<"\"name\"", "\"road\"">> >>,
      << <<"\"name\"", "\"road\"">>, <<"\"surface\"", "\"paved\"">> >>,
      << <<"\"surface\"", "\"paved\"">>, <<"\"name\"", "\"road\"">> >>,
      << <<"\"name\"", "\"road\"">>, <<"\"visibility\"", "false">> >> }

(* Geometries of which none touches another: a polygon with a sliver hole  *)
(* and a real hole, a second polygon, a line, a point and a MultiPolygon.  *)
Geometries ==
    {Atom("Polygon", "yard", <<5, 20>>), Atom("Polygon", "shed", << >>),
     Atom("LineString", "fence", << >>), Atom("Point", "gate", << >>),
     Multi("MultiPolygon", <<Atom("Polygon", "dock", << >>), Atom("Polygon", "quay", << >>)>>)}

FeatureCollections ==
    LET features == {Feature(g, p) : g \in {x \in Geometries : x.name \in {"yard", "fence", "gate"}},
                                     p \in PropertyLists}
    IN UNION {[1..n -> features] : n \in 1..MaxFeatures}

InitClean ==
    /\ Loaded
    /\ prep = NoPrep
    /\ \E fc \in FeatureCollections :
          clean = [NoClean EXCEPT !.stage = "read", !.features = fc]

(* Lines 72-83: the visible features, sorted and grouped by keyfunc.       *)
GroupFeatures ==
    /\ clean.stage = "read"
    /\ clean' = [clean EXCEPT !.stage = "grouped", !.groups = GroupBy(SortedByKey(SelectSeq(clean.features, Visible)))]
    /\ UNCHANGED <<globals, locals, pc, prep>>

(* Lines 85-107: one turn of the loop writes the next group's feature.     *)
EmitFeature ==
    /\ clean.stage = "grouped"
    /\ Len(clean.output) < Len(clean.groups)
    /\ clean' = [clean EXCEPT
           !.output = Append(@, NewFeature(clean.groups[Len(clean.output) + 1]))]
    /\ UNCHANGED <<globals, locals, pc, prep>>

(* Line 109: the collection is closed.                                     *)
CloseCollection ==
    /\ clean.stage = "grouped"
    /\ Len(clean.output) = Len(clean.groups)
    /\ clean' = [clean EXCEPT !.stage = "done"]
    /\ UNCHANGED <<globals, locals, pc, prep>>

NextClean ==
    \/ GroupFeatures
    \/ EmitFeature
    \/ CloseCollection

SpecClean == InitClean /\ [][NextClean]_vars

(* lint_roll(geometry) applied to a geometry of any kind.                  *)

MaxMembers == 3

(* The members of a collection are different geometries.                   *)
LintRollInputs ==
    Geometries
    \cup {Multi("GeometryCollection", ms) :
             ms \in {l \in UNION {[1..n -> Geometries] : n \in 1..MaxMembers} :
                        \A i, j \in DOMAIN l : l[i] = l[j] => i = j}}

InitLintRoll ==
    /\ Loaded
    /\ prep = NoPrep
    /\ \E g \in LintRollInputs :
          clean = [NoClean EXCEPT !.stage = "geometry", !.geometry = g]

LintRoll ==
    /\ clean.stage = "geometry"
    /\ clean' = [clean EXCEPT !.stage = "rolled", !.rolled = lint_roll(clean.geometry)]
    /\ UNCHANGED <<globals, locals, pc, prep>>

SpecLintRoll == InitLintRoll /\ [][LintRoll]_vars

----------------------------------------------------------------------------
(* Checks of the model itself.                                             *)

TypeOK ==
    /\ pc \in {"idle", "parse", "prefetch", "resolve", "specialize", "origin",
               "destination", "route", "done"}
    /\ response.outcome \in {"none", "returned", "raised"}
    /\ pc = "done" <=> response.outcome /= "none"

(* The foot of a target on a segment from p to q is p or q: the nearest    *)
(* point of every line in the edge tables to every target drawn is one of  *)
(* the line's coordinates, as GeomDist2 and LocateIndex take it.           *)
FootIsEndPoint(t, p, q) ==
    LET dot == (t[1] - p[1]) * (q[1] - p[1]) + (t[2] - p[2]) * (q[2] - p[2])
    IN dot <= 0 \/ dot >= Dist2(p, q)

DiscretisationExact ==
    \A r \in Range(local_edges) \cup Range(all_edges) :
        \A k \in DOMAIN r.geometry :
            \A i \in 1..(Len(r.geometry[k]) - 1) :
                \A t \in Origins \cup Destinations :
                    FootIsEndPoint(t, r.geometry[k][i], r.geometry[k][i + 1])

----------------------------------------------------------------------------
(* The claims.                                                             *)

Done == pc = "done"
Returned(status) == response.outcome = "returned" /\ response.statusCode = status
ReturnedError(status, text) == Returned(status) /\ response.Error.text = text
HasExclusion == ~CollectionIsEmpty(exclusion_areas)

(* A line passes through the exclusion areas when one of its segments lies *)
(* inside them.                                                            *)
PassesThrough(line, shapes) ==
    \E i \in 1..(Len(line) - 1) : Covers(shapes, line[i]) /\ Covers(shapes, line[i + 1])

JumpsAcross(a, b) ==
    \E e \in Range(edges) :
        /\ {e.u, e.v} = {a, b}
        /\ PassesThrough(e.geometry[1], exclusion_areas)

(* C1: a request with exclusion areas that is answered 200 is routed       *)
(* around them: no step of the route goes from one end node of a static    *)
(* edge to the other when the edge's original geometry passes through an   *)
(* exclusion area.                                                         *)
C1_RouteGoesAround ==
    (Done /\ Returned(200) /\ HasExclusion) =>
        \A i \in 1..(Len(response.route) - 1) :
            ~JumpsAcross(response.route[i], response.route[i + 1])

PresentCount(area) ==
    (IF area.Circle.present THEN 1 ELSE 0)
    + (IF area.Polygon.present THEN 1 ELSE 0)
    + (IF area.Arn.present THEN 1 ELSE 0)

OnlyOneText == "Only one of {Circle, Polygon, Arn} may be provided per Area."

(* C3: a request whose first Area holds zero or several of the keys        *)
(* Circle, Polygon, Arn (a key counts when it is present in the Area       *)
(* object) is answered 400 "Only one of ..."; a request whose Areas each   *)
(* hold exactly one of the keys is never answered so.  Stated for the      *)
(* requests answered without any call to the catalog.                      *)
C3_OnlyOnePerArea ==
    (Done /\ response.outcome = "returned" /\ calls = << >> /\ event.Areas /= << >>) =>
        /\ PresentCount(event.Areas[1]) /= 1 => ReturnedError(400, OnlyOneText)
        /\ ReturnedError(400, OnlyOneText)
              => \E i \in DOMAIN event.Areas : PresentCount(event.Areas[i]) /= 1

(* The catalog was asked and every call succeeded.                         *)
FetchSucceeded ==
    /\ calls /= << >>
    /\ \A k \in DOMAIN calls : calls[k].outcome = "ok"

MissingArn(area) ==
    /\ ArnTruthy(area.Arn)
    /\ ArnParses(area.Arn.str)
    /\ \A g \in geofences : g.key /= area.Arn.str

NoRouteComputed == origin_id = 0 /\ destination_id = 0 /\ response.route = << >>

AnsweredMissing(area) ==
    /\ ReturnedError(500, "Unable to fetch geofence")
    /\ response.Error.args = <<area.Arn.str>>
    /\ NoRouteComputed

(* C4 as stated: whenever some Arn area's id is absent from the fetched    *)
(* mapping, the answer is 500 "Unable to fetch geofence (<arn>)" for it.   *)
C4_AnyMissingArnIs500 ==
    (Done /\ FetchSucceeded) =>
        \A i \in DOMAIN event.Areas :
            MissingArn(event.Areas[i]) => AnsweredMissing(event.Areas[i])

(* An area that get_exclusion_areas passes: exactly one of its three       *)
(* values counts, a circle has its centre and radius, an Arn names the geo *)
(* service and a fetched geofence.                                         *)
AreaPasses(area) ==
    /\ Cardinality({k \in {"Circle", "Polygon", "Arn"} :
            \/ k = "Circle" /\ CircleTruthy(area.Circle)
            \/ k = "Polygon" /\ PolygonTruthy(area.Polygon)
            \/ k = "Arn" /\ ArnTruthy(area.Arn)}) = 1
    /\ CircleTruthy(area.Circle) => {"Center", "Radius"} \subseteq area.Circle.keys
    /\ ArnTruthy(area.Arn) =>
          /\ ArnParses(area.Arn.str)
          /\ area.Arn.str[3] = "geo"
          /\ \E g \in geofences : g.key = area.Arn.str

OnlyArn(area) ==
    /\ ArnTruthy(area.Arn) /\ ~CircleTruthy(area.Circle) /\ ~PolygonTruthy(area.Polygon)
    /\ ArnParses(area.Arn.str) /\ area.Arn.str[3] = "geo"

(* C4 (amended): when the fetch succeeded and the first area (in the order *)
(* of the list) that does not pass is an area with an Arn alone, of the    *)
(* geo service, whose id is absent from the fetched mapping, the answer is *)
(* 500 "Unable to fetch geofence (<arn>)" with exactly that Arn, and no    *)
(* route is computed.                                                      *)
C4_FirstMissingArnIs500 ==
    (Done /\ FetchSucceeded) =>
        \A i \in DOMAIN event.Areas :
            ( /\ MissingArn(event.Areas[i])
              /\ OnlyArn(event.Areas[i])
              /\ \A j \in 1..(i - 1) : AreaPasses(event.Areas[j]) )
            => AnsweredMissing(event.Areas[i])

(* C4 witness: the second area names an absent geofence, the first one a   *)
(* fetched one, and the answer is the 500 for the second.                  *)
C4_Witness ==
    /\ Done /\ FetchSucceeded
    /\ Len(event.Areas) = 2
    /\ ArnTruthy(event.Areas[1].Arn) /\ AreaPasses(event.Areas[1])
    /\ MissingArn(event.Areas[2]) /\ OnlyArn(event.Areas[2])
    /\ AnsweredMissing(event.Areas[2])

(* The nodes reached from the set S along the edges of g.                  *)
RECURSIVE ReachedFrom(_, _)
ReachedFrom(g, S) ==
    LET T == S \cup {e.v : e \in {x \in g.edge : x.u \in S}}
    IN IF T = S THEN S ELSE ReachedFrom(g, T)

Spliced == origin_id /= 0 /\ destination_id /= 0
DestinationReachable == destination_id \in ReachedFrom(G, {origin_id})

C6_EnclosedDestinationIs404 ==
    (/\ Done /\ response.outcome = "returned" /\ HasExclusion
     /\ Covers(exclusion_areas, event.Destination)
     /\ ~Covers(exclusion_areas, event.Origin))
    => ReturnedError(404, "No route found.")

(* C7: every call of handle ends by returning a response that carries the  *)
(* CORS header; no exception leaves handle.                                *)
C7_AlwaysAResponse ==
    Done => /\ response.outcome = "returned"
            /\ CorsHeader \in response.headers

(* C8: when a catalog call fails, in whatever way, the answer is a 500     *)
(* with an Error body and no route is computed.                            *)
C8_FetchFailureIs500 ==
    (Done /\ \E k \in DOMAIN calls : calls[k].outcome /= "ok") =>
        /\ Returned(500)
        /\ response.Error.text /= ""
        /\ NoRouteComputed

InvalidArea(area) ==
    \/ SpecifiedCount(area) /= 1
    \/ /\ ArnTruthy(area.Arn) /\ ArnParses(area.Arn.str)
       /\ area.Arn.str[3] /= "geo"

(* C9: a request with an invalid Area is answered 400 before any catalog   *)
(* call is made and before any specializing, splicing or routing.          *)
C9_ValidationBeforeFetch ==
    (/\ pc \notin {"idle", "parse"}
     /\ \A i \in DOMAIN event.Areas :
           event.Areas[i].Arn.present => ArnParses(event.Areas[i].Arn.str)
     /\ \E i \in DOMAIN event.Areas : InvalidArea(event.Areas[i]))
    => /\ calls = << >>
       /\ Done => Returned(400) /\ NoRouteComputed

ReverseGeom(geom) == Reverse([k \in 1..Len(geom) |-> Reverse(geom[k])])

EdgePairing(rows) ==
    \A r \in Range(rows) :
        r.key = 0 =>
            \E q \in Range(rows) :
                /\ q.key = 1 /\ q.u = r.v /\ q.v = r.u
                /\ q.geometry = ReverseGeom(r.geometry)
                /\ q.length = r.length

(* C10: in the edge table of the prepared graph and in the edge table the  *)
(* exclusion branch builds, every key 0 edge (u, v) has a key 1 edge       *)
(* (v, u) with the reversed geometry and the same length.                  *)
C10_EdgePairing ==
    /\ EdgePairing(edges)
    /\ (HasExclusion /\ local_edges /= << >>) => EdgePairing(local_edges)

(* The state of the Specializer once it has built the request's graph.     *)
Specialized ==
    /\ pc \in {"origin", "destination", "route", "done"}
    /\ HasExclusion
    /\ local_edges /= << >>

MaxStaticId == MaxOf(DOMAIN nodes)
RemovedIds == {n \in DOMAIN nodes : Covers(exclusion_areas, nodes[n])}

(* The endpoints of a table's rows, one after the other: u of row 1, v of  *)
(* row 1, u of row 2, ...                                                  *)
EndPoint(rows, k) == IF k % 2 = 1 THEN rows[(k + 1) \div 2].u ELSE rows[k \div 2].v

RemovedUpTo(k) ==
    Cardinality({j \in 1..k : EndPoint(ForwardRows(edges), j) \in RemovedIds})

(* C14: in the key 0 rows the Specializer builds, the k-th mention of a    *)
(* removed node carries the id max(static ids) + k, so the replacements    *)
(* are consecutive, pairwise distinct and no id of the static graph; an    *)
(* endpoint that was not removed keeps its id.                             *)
C14_FreshIdPerOccurrence ==
    Specialized =>
        LET was == ForwardRows(edges)
            now == ForwardRows(local_edges)
        IN /\ Len(now) = Len(was)
           /\ \A k \in 1..(2 * Len(was)) :
                 /\ EndPoint(was, k) \notin RemovedIds
                       => EndPoint(now, k) = EndPoint(was, k)
                 /\ EndPoint(was, k) \in RemovedIds
                       => /\ EndPoint(now, k) = MaxStaticId + RemovedUpTo(k)
                          /\ EndPoint(now, k) \notin DOMAIN nodes
                          /\ \A j \in 1..(k - 1) : EndPoint(now, j) /= EndPoint(now, k)

(* C14 witness: two edges left the same removed node and their ends have   *)
(* two replacements.                                                       *)
C14_Witness ==
    /\ Specialized
    /\ \E i, j \in DOMAIN ForwardRows(edges) :
          /\ i /= j
          /\ ForwardRows(edges)[i].u = ForwardRows(edges)[j].u
          /\ ForwardRows(edges)[i].u \in RemovedIds
          /\ ForwardRows(local_edges)[i].u /= ForwardRows(local_edges)[j].u

(* C15: a request with one area that holds a whole edge (the edge's        *)
(* clipped geometry is empty) is answered 200 or 404, and the edge is in   *)
(* the request's graph under neither key.                                  *)
C15_EmptyEdgeDropped ==
    (/\ Done /\ HasExclusion /\ Len(event.Areas) = 1
     /\ \E r \in Range(ForwardRows(edges)) :
           IsEmptyGeom(LineDifference(r.geometry, exclusion_areas)))
    => /\ Returned(200) \/ Returned(404)
       /\ \A e \in G.edge : ~IsEmptyGeom(e.geometry)

(* C16: in the graph of a request with exclusion areas every end of every  *)
(* edge is a node with a coordinate, and a synthetic node lies at the      *)
(* first (u side) or last (v side) coordinate of its clipped edge.         *)
C16_EveryEndIsALocatedNode ==
    Specialized =>
        /\ \A e \in G.edge :
              /\ e.u \in DOMAIN G.node /\ G.node[e.u] /= NoPoint
              /\ e.v \in DOMAIN G.node /\ G.node[e.v] /= NoPoint
        /\ \A r \in Range(ForwardRows(local_edges)) :
              /\ r.u > MaxStaticId => G.node[r.u] = r.geometry[1][1]
              /\ r.v > MaxStaticId
                    => G.node[r.v] = r.geometry[Len(r.geometry)][Len(r.geometry[Len(r.geometry)])]

(* The ids of the working graph before the first splice: the node table's  *)
(* and the edge table's.                                                   *)
IdsBeforeSplice ==
    DOMAIN local_nodes \cup {local_edges[i].u : i \in DOMAIN local_edges}
                       \cup {local_edges[i].v : i \in DOMAIN local_edges}

OriginSpliced == pc \in {"destination", "route", "done"} /\ origin_id /= 0

(* C17: the id the Splicer gives the origin is greater than every node id  *)
(* of the working graph it was spliced into, nodes without an edge         *)
(* included.                                                               *)
C17_FreshSpliceId ==
    OriginSpliced => \A n \in IdsBeforeSplice : origin_id > n

(* The working graph before the first splice.                              *)
GraphBeforeSplice ==
    IF HasExclusion THEN GraphFromGdfs(local_nodes, local_edges, "request")
    ELSE GraphCopy(original_graph)

(* The rows the first splice appended to the edge table.                   *)
SplicedRows == SubSeq(all_edges, Len(local_edges) + 1, Len(all_edges))

(* C18: the first splice adds the node N, or N and N + 1, and one or three *)
(* key 0 edges, each with a key 1 reverse, to the working graph and to the *)
(* edge table; the nodes and edges that were there are as they were.       *)
C18_SpliceOnlyAdds ==
    OriginSpliced =>
        LET before == GraphBeforeSplice
            added  == G.edge \ before.edge
        IN /\ before.edge \subseteq G.edge
           /\ \A n \in DOMAIN before.node :
                 n \in DOMAIN G.node /\ G.node[n] = before.node[n]
           /\ DOMAIN G.node \ DOMAIN before.node \in
                 {{origin_id}, {origin_id, origin_id + 1}}
           /\ SubSeq(all_edges, 1, Len(local_edges)) = local_edges
           /\ Len(SplicedRows) \in {2, 6}
           /\ added = Range(SplicedRows)
           /\ \A e \in added :
                 e.key = 0 => \E q \in added : q.key = 1 /\ q.u = e.v /\ q.v = e.u

(* C19: after the first splice of a request without exclusion areas every  *)
(* key 0 row the splice added runs from the place of its u to the place of *)
(* its v: the connector leaves the node at the near end of the chosen      *)
(* edge, the left part starts at the chosen edge's u and the right part    *)
(* ends at its v.                                                          *)
C19_SpliceFollowsGeometry ==
    (OriginSpliced /\ ~HasExclusion) =>
        \A r \in Range(SplicedRows) :
            r.key = 0 =>
                /\ G.node[r.u] = r.geometry[1][1]
                /\ r.v /= origin_id => G.node[r.v] = r.geometry[1][Len(r.geometry[1])]


(* The points of a run of prepare: which ones are joined by a chain of     *)
(* points each within the threshold of the next.                           *)
RECURSIVE ChainFrom(_, _)
ChainFrom(pts, S) ==
    LET more == {j \in DOMAIN pts : \E i \in S : WithinThreshold(pts[i], pts[j])}
    IN IF more \subseteq S THEN S ELSE ChainFrom(pts, S \cup more)

GroupOf(pts, i) == ChainFrom(pts, {i})

Groups(pts) == {GroupOf(pts, i) : i \in DOMAIN pts}

(* The nodes a point of the first pass is mapped to: the mean of every     *)
(* cluster it is a member of, or its own coordinate when it is in none.    *)
MappedTo(i) ==
    IF \E c \in prep.clusters : i \in c
    THEN {ClusterMean(prep.coords, c) : c \in {d \in prep.clusters : i \in d}}
    ELSE {prep.coords[i]}

ClusteredOnce == prep.stage \in {"once", "nodes", "edges", "done"}

(* C20: after one pass of the Clusterer every point is mapped to exactly   *)
(* one node, and two points are mapped to the same node exactly when a     *)
(* chain of points within the threshold of each other joins them.          *)
C20_ClustersAreComponents ==
    ClusteredOnce =>
        \A i \in DOMAIN prep.coords :
            /\ Cardinality(MappedTo(i)) = 1
            /\ \A j \in DOMAIN prep.coords :
                  (j \in GroupOf(prep.coords, i)) <=> (MappedTo(i) = MappedTo(j))

Prepared == prep.stage = "done"

(* The segments of the input lines, as <<line, place>>, whose two ends are *)
(* in different groups of vertices.                                        *)
OpenSegments ==
    LET pts == get_coords(prep.lines)
        at(p) == CHOOSE i \in DOMAIN pts : pts[i] = p
    IN {s \in {<<k, i>> : k \in DOMAIN prep.lines, i \in 1..3} :
           /\ s[2] < Len(prep.lines[s[1]])
           /\ at(prep.lines[s[1]][s[2] + 1])
                 \notin GroupOf(pts, at(prep.lines[s[1]][s[2]]))}

(* C11: prepare returns one node for every group of line vertices within   *)
(* the threshold, and for every line segment between two groups one key 0  *)
(* edge and one key 1 edge, and no self-edge.                              *)
C11_OneNodePerGroup ==
    Prepared =>
        /\ Cardinality(DOMAIN prep.graph.node) = Cardinality(Groups(get_coords(prep.lines)))
        /\ Cardinality(prep.graph.edge) = 2 * Cardinality(OpenSegments)
        /\ Cardinality({e \in prep.graph.edge : e.key = 0}) = Cardinality(OpenSegments)
        /\ Cardinality({e \in prep.graph.edge : e.key = 1}) = Cardinality(OpenSegments)
        /\ \A e \in prep.graph.edge : e.u /= e.v

(* Every piece of every line is joined to a node at both ends.             *)
PiecesMeetNodes ==
    \A k \in DOMAIN prep.segments : prep.segments[k].u /= NaN /\ prep.segments[k].v /= NaN

Cleaned == clean.stage = "done"

(* The property mappings of the visible input features: a mapping is the   *)
(* set of its <<key, value>> pairs.                                        *)
VisibleMappings ==
    {Range(clean.features[i].properties) :
        i \in {j \in DOMAIN clean.features : Visible(clean.features[j])}}

(* C12: clean_geometries writes exactly one feature for every distinct     *)
(* property mapping of the visible features, whatever the order in which   *)
(* the keys of a mapping were written.                                     *)
C12_OneFeaturePerMapping ==
    Cleaned =>
        /\ Len(clean.output) = Cardinality(VisibleMappings)
        /\ \A m \in VisibleMappings :
              Cardinality({k \in DOMAIN clean.output :
                              Range(clean.output[k].properties) = m}) = 1

Rolled == clean.stage = "rolled"

(* The single parts of a geometry, as a set.                               *)
PartsOf(g) == Range(SingleParts(g))

BothPolygonsAndLineStrings(g) ==
    /\ g.type = "GeometryCollection"
    /\ \E i \in DOMAIN g.geoms : g.geoms[i].type = "Polygon"
    /\ \E i \in DOMAIN g.geoms : g.geoms[i].type = "LineString"

(* C13: lint_roll returns its input unchanged unless it is a collection    *)
(* with both Polygons and LineStrings; from such a collection it removes   *)
(* the LineStrings and nothing else, and what is left of polygons alone is *)
(* a Polygon (one) or a MultiPolygon (several).                            *)
C13_OnlyLineStringsRemoved ==
    Rolled =>
        LET g == clean.geometry
            r == clean.rolled
            kept == {p \in PartsOf(g) : p.type /= "LineString"}
        IN /\ ~BothPolygonsAndLineStrings(g) => r = g
           /\ BothPolygonsAndLineStrings(g) =>
                 /\ PartsOf(r) = kept
                 /\ (\A p \in kept : p.type = "Polygon") =>
                       r.type = (IF Cardinality(kept) = 1 THEN "Polygon" ELSE "MultiPolygon")
============================================================================
